---- MODULE Spec2Model ----
(***************************************************************************)
(* A model of the proof-of-work chain of                                   *)
(* blockchain-programming/bitcoin-mining/simple_bitcoin.py:                *)
(* Transaction, Block and SimpleBitcoinBlockchain.                         *)
(*                                                                         *)
(* Amounts are Python floats in the source.  The model counts them in      *)
(* thousandths of a coin (the default fee, 0.001, is one thousandth) and   *)
(* adds and subtracts them exactly: the rounding of binary floating point  *)
(* is not modelled.                                                        *)
(*                                                                         *)
(* hashlib.sha256 is modelled by a stand-in digest.  A digest keeps the    *)
(* string it was computed from (field pre), so two digests are equal       *)
(* exactly when their inputs are: collisions are idealised away.  Which    *)
(* of its leading hex characters are '0' is decided by a small mixing      *)
(* function of the input (field w): character k of the digest is '0' iff   *)
(* bit k-1 of w is 0, for the first SigChars characters; the characters    *)
(* after them are taken to be non-zero.                                    *)
(***************************************************************************)
EXTENDS Integers, Sequences, FiniteSets, TLC

VARIABLES
    chain,             \* self.chain: the list of Blocks
    difficulty,        \* self.difficulty
    transaction_pool,  \* self.transaction_pool: the mempool
    balances,          \* self.balances: a dict from address to balance
    now,               \* the wall clock read by time.time()
    last,              \* the API call the last step made: its name, return value, printed line
    mining,            \* the Block being searched by Block.mine_block, and its loop state
    app,               \* the counter application on the Algorand ledger: id, schema, global state
    txn                \* the application call transaction the last step evaluated

vars == <<chain, difficulty, transaction_pool, balances, now, last, mining, app, txn>>

----------------------------------------------------------------------------
(* Bounds of the model. *)

\* The clock takes the values 0..MaxTime.
MaxTime == 2
\* Callers have at most MaxTx transactions accepted in all.  A block takes at
\* least one of them, so the chain holds at most 1 + MaxTx blocks.
MaxTx == 3
\* The attempt ceiling of Block.mine_block, 10_000_000 in the source (line 146).
MaxAttempts == 3
\* The number of leading digest characters whose value the stand-in digest decides.
SigChars == 6
\* In LongSpec the clock moves MaxEras times.
MaxEras == 4
\* In LongSpec the chain holds at most MaxBlocks blocks.
MaxBlocks == 11
\* In LongSpec adjust_difficulty is called while the difficulty is at most MaxDifficulty.
MaxDifficulty == 5
\* In AuditSpec the chains examined were built by at most MaxRounds mine_block calls.
MaxRounds == 2
\* The longest list of transactions a Merkle root is computed over.
MaxLen == 4
\* The counter application's limit, Int(1000000) in the source.
CounterLimit == 3
\* The largest uint64, 2^64 - 1 on the ledger.
MaxUint == 5

----------------------------------------------------------------------------
(* Program constants. *)

\* Thousandths of a coin in a coin: the default fee is 0.001.
Milli == 1000
\* Transaction.fee's default, in thousandths.
DefaultFee == 1
\* self.mining_reward = 50.0
mining_reward == 50 * Milli
\* self.difficulty = 4
InitialDifficulty == 4
\* self.balances = {"genesis": 1000000.0}
GenesisSupply == 1000000 * Milli
\* genesis_tx amount=100.0
GenesisAmount == 100 * Milli
\* "0" * 64: the length of a hex digest
HexLen == 64
\* adjust_difficulty: the look-back window, in blocks
Window == 10
\* adjust_difficulty: target_time = 10.0
TargetTime == 10

----------------------------------------------------------------------------
(* The Algorand side, while no application has been created. *)

\* StateSchema(num_ints, num_byte_slices)
StateSchema(num_ints, num_byte_slices) ==
    [num_ints |-> num_ints, num_byte_slices |-> num_byte_slices]

\* No application: id 0, no global state.
NoApp == [id |-> 0, global_schema |-> StateSchema(0, 0), global_state |-> <<>>]

\* No transaction evaluated yet.
NoTxn == [sender |-> "", application_id |-> 0, on_completion |-> "",
          application_args |-> <<>>, global_schema |-> StateSchema(0, 0)]

----------------------------------------------------------------------------
(* Strings and digests. *)

\* The addresses the model's callers use; "" is the empty identifier.
Addresses == {"", "genesis", "miner1", "alice", "coinbase", "fees"}

AddrCode(a) ==
    CASE a = "" -> 0
      [] a = "genesis" -> 1
      [] a = "miner1" -> 2
      [] a = "alice" -> 3
      [] a = "coinbase" -> 4
      [] a = "fees" -> 5

MixMod == 2 ^ 12

\* A piece of text: the value it renders (pre) and what it feeds the mixing function (w).
NumText(n) == [pre |-> n, w |-> n % MixMod]
AddrText(a) == [pre |-> a, w |-> AddrCode(a)]

RECURSIVE Mix(_)
Mix(s) ==
    IF s = <<>> THEN 11
    ELSE (Mix(SubSeq(s, 1, Len(s) - 1)) * 5 + s[Len(s)].w + 3) % MixMod

\* hashlib.sha256(s.encode()).hexdigest()
sha256(s) == [pre |-> s, w |-> Mix(s)]

\* "0" * 64
ZeroHash == [pre |-> <<>>, w |-> 0]
\* "": the merkle_root argument of a Block that is to compute its own root
EmptyString == [pre |-> <<>>, w |-> -1]

RECURSIVE ZeroRun(_, _)
\* The number of leading '0' among the first k characters decided by w.
ZeroRun(w, k) ==
    IF k = 0 \/ w % 2 = 1 THEN 0 ELSE 1 + ZeroRun(w \div 2, k - 1)

\* The number of leading '0' characters of a digest.
LeadingZeros(h) ==
    IF h = ZeroHash THEN HexLen ELSE ZeroRun(h.w, SigChars)

\* h.startswith("0" * d)
StartsWithZeros(h, d) == LeadingZeros(h) >= d

----------------------------------------------------------------------------
(* Transaction *)

\* A Transaction value (the dataclass fields).
Transaction(sender, receiver, amount, fee, timestamp) ==
    [sender |-> sender, receiver |-> receiver, amount |-> amount,
     fee |-> fee, timestamp |-> timestamp]

\* A variant of get_hash that leaves the timestamp out of the hashed text.
get_hash_NoTimestamp(tx) ==
    sha256(<<NumText(tx.amount), NumText(tx.fee), AddrText(tx.receiver),
             AddrText(tx.sender)>>)

\* Transaction.get_hash: sha256 of json.dumps(asdict(self), sort_keys=True);
\* the keys sort as amount, fee, receiver, sender, timestamp.
get_hash(tx) ==
    sha256(<<NumText(tx.amount), NumText(tx.fee), AddrText(tx.receiver),
             AddrText(tx.sender), NumText(tx.timestamp)>>)

\* A variant of is_valid without the test of the receiver's length.
is_valid_NoReceiverTest(tx) ==
    /\ tx.sender # tx.receiver
    /\ tx.amount > 0
    /\ tx.fee >= 0
    /\ tx.sender # ""

\* Transaction.is_valid
is_valid(tx) ==
    /\ tx.sender # tx.receiver
    /\ tx.amount > 0
    /\ tx.fee >= 0
    /\ tx.sender # ""
    /\ tx.receiver # ""

----------------------------------------------------------------------------
(* Block *)

RECURSIVE MerkleLevels_Unordered(_)
\* A variant of the loop that hashes each pair in an order of its own choosing.
MerkleLevels_Unordered(tx_hashes) ==
    IF Len(tx_hashes) <= 1 THEN tx_hashes[1]
    ELSE LET padded == IF Len(tx_hashes) % 2 = 1
                       THEN Append(tx_hashes, tx_hashes[Len(tx_hashes)])
                       ELSE tx_hashes
             new_hashes == [i \in 1..(Len(padded) \div 2) |->
                               IF padded[2 * i - 1].w <= padded[2 * i].w
                               THEN sha256(<<padded[2 * i - 1], padded[2 * i]>>)
                               ELSE sha256(<<padded[2 * i], padded[2 * i - 1]>>)]
         IN MerkleLevels_Unordered(new_hashes)

RECURSIVE MerkleLevels_PadZero(_)
\* A variant of the loop that fills an odd level with "0" * 64.
MerkleLevels_PadZero(tx_hashes) ==
    IF Len(tx_hashes) <= 1 THEN tx_hashes[1]
    ELSE LET padded == IF Len(tx_hashes) % 2 = 1
                       THEN Append(tx_hashes, ZeroHash)
                       ELSE tx_hashes
             new_hashes == [i \in 1..(Len(padded) \div 2) |->
                               sha256(<<padded[2 * i - 1], padded[2 * i]>>)]
         IN MerkleLevels_PadZero(new_hashes)

RECURSIVE MerkleLevels(_)
\* The while loop of Block.calculate_merkle_root over a non-empty list of hashes.
MerkleLevels(tx_hashes) ==
    IF Len(tx_hashes) <= 1 THEN tx_hashes[1]
    ELSE LET padded == IF Len(tx_hashes) % 2 = 1
                       THEN Append(tx_hashes, tx_hashes[Len(tx_hashes)])
                       ELSE tx_hashes
             new_hashes == [i \in 1..(Len(padded) \div 2) |->
                               sha256(<<padded[2 * i - 1], padded[2 * i]>>)]
         IN MerkleLevels(new_hashes)

\* Block.calculate_merkle_root
calculate_merkle_root(transactions) ==
    IF transactions = <<>> THEN ZeroHash
    ELSE MerkleLevels([i \in 1..Len(transactions) |-> get_hash(transactions[i])])

\* A variant of the constructor that stores the merkle_root argument as given.
Block_RootAsGiven(index, timestamp, transactions, previous_hash, merkle_root, diff) ==
    [index |-> index, timestamp |-> timestamp, transactions |-> transactions,
     previous_hash |-> previous_hash,
     merkle_root |-> IF merkle_root = EmptyString THEN EmptyString ELSE merkle_root,
     nonce |-> 0, difficulty |-> diff]

\* Block(...) with nonce left at its default 0, and Block.__post_init__.
Block(index, timestamp, transactions, previous_hash, merkle_root, diff) ==
    [index |-> index, timestamp |-> timestamp, transactions |-> transactions,
     previous_hash |-> previous_hash,
     merkle_root |-> IF merkle_root = EmptyString
                     THEN calculate_merkle_root(transactions)
                     ELSE merkle_root,
     nonce |-> 0, difficulty |-> diff]

\* Block.get_block_data
get_block_data(b) ==
    <<NumText(b.index), NumText(b.timestamp), b.previous_hash, b.merkle_root,
      NumText(b.difficulty)>>

\* Block.calculate_hash
calculate_hash(b) == sha256(get_block_data(b) \o <<NumText(b.nonce)>>)

\* The state of Block.mine_block as it enters its loop: attempts = 0.
MineStart(b) == [block |-> b, attempts |-> 0, pc |-> "loop", stats |-> <<>>]

\* MineIteration with the safety check after the increment left out.
MineIteration_NoCeiling(m) ==
    LET attempts == m.attempts + 1
        hash_result == calculate_hash(m.block)
    IN IF StartsWithZeros(hash_result, m.block.difficulty)
       THEN [block |-> m.block, attempts |-> attempts, pc |-> "returned",
             stats |-> <<[hash |-> hash_result, nonce |-> m.block.nonce,
                          attempts |-> attempts,
                          difficulty |-> m.block.difficulty]>>]
       ELSE [block |-> [m.block EXCEPT !.nonce = @ + 1], attempts |-> attempts,
             pc |-> "loop", stats |-> <<>>]

\* A variant of the loop body that advances the nonce before it returns.
MineIteration_NonceAhead(m) ==
    LET attempts == m.attempts + 1
        hash_result == calculate_hash(m.block)
    IN IF StartsWithZeros(hash_result, m.block.difficulty)
       THEN [block |-> [m.block EXCEPT !.nonce = @ + 1], attempts |-> attempts,
             pc |-> "returned",
             stats |-> <<[hash |-> hash_result, nonce |-> m.block.nonce,
                          attempts |-> attempts,
                          difficulty |-> m.block.difficulty]>>]
       ELSE [block |-> [m.block EXCEPT !.nonce = @ + 1], attempts |-> attempts,
             pc |-> IF attempts > MaxAttempts THEN "stopped" ELSE "loop",
             stats |-> <<>>]

\* One pass through the body of the while loop of Block.mine_block.
\* pc: "loop" to go round again, "returned" after the return of the statistics,
\* "stopped" after the break (the method then returns None: stats is empty).
\* mining_time and hash_rate, which measure wall time, are left out of the statistics.
MineIteration(m) ==
    LET attempts == m.attempts + 1
        hash_result == calculate_hash(m.block)
    IN IF StartsWithZeros(hash_result, m.block.difficulty)
       THEN [block |-> m.block, attempts |-> attempts, pc |-> "returned",
             stats |-> <<[hash |-> hash_result, nonce |-> m.block.nonce,
                          attempts |-> attempts,
                          difficulty |-> m.block.difficulty]>>]
       ELSE [block |-> [m.block EXCEPT !.nonce = @ + 1], attempts |-> attempts,
             pc |-> IF attempts > MaxAttempts THEN "stopped" ELSE "loop",
             stats |-> <<>>]

RECURSIVE MineLoop(_)
MineLoop(m) == IF m.pc # "loop" THEN m ELSE MineLoop(MineIteration(m))

\* Block.mine_block, run to its end: the block as the search left it, and the
\* returned statistics (<<>> for None).
Block_mine_block(b) == MineLoop(MineStart(b))

----------------------------------------------------------------------------
(* SimpleBitcoinBlockchain *)

\* self.balances.get(address, 0)
BalanceGet(bal, address) == IF address \in DOMAIN bal THEN bal[address] ELSE 0

\* UpdateOne debiting a sender that has no entry, from an entry made at 0.
UpdateOne_DebitUnknown(bal, tx) ==
    LET known == IF tx.sender \notin DOMAIN bal THEN (tx.sender :> 0) @@ bal ELSE bal
        debited == [known EXCEPT ![tx.sender] = @ - (tx.amount + tx.fee)]
        entered == IF tx.receiver \notin DOMAIN debited
                   THEN (tx.receiver :> 0) @@ debited
                   ELSE debited
    IN [entered EXCEPT ![tx.receiver] = @ + tx.amount]

\* A variant of the loop body that debits the amount but not the fee.
UpdateOne_AmountOnly(bal, tx) ==
    LET debited == IF tx.sender \in DOMAIN bal
                   THEN [bal EXCEPT ![tx.sender] = @ - tx.amount]
                   ELSE bal
        entered == IF tx.receiver \notin DOMAIN debited
                   THEN (tx.receiver :> 0) @@ debited
                   ELSE debited
    IN [entered EXCEPT ![tx.receiver] = @ + tx.amount]

\* The body of the for loop of update_balances, for one transaction.
UpdateOne(bal, tx) ==
    LET debited == IF tx.sender \in DOMAIN bal
                   THEN [bal EXCEPT ![tx.sender] = @ - (tx.amount + tx.fee)]
                   ELSE bal
        entered == IF tx.receiver \notin DOMAIN debited
                   THEN (tx.receiver :> 0) @@ debited
                   ELSE debited
    IN [entered EXCEPT ![tx.receiver] = @ + tx.amount]

RECURSIVE update_balances(_, _)
\* SimpleBitcoinBlockchain.update_balances
update_balances(bal, transactions) ==
    IF transactions = <<>> THEN bal
    ELSE update_balances(UpdateOne(bal, transactions[1]),
                         SubSeq(transactions, 2, Len(transactions)))

\* The fields of a SimpleBitcoinBlockchain object.
Self == [chain |-> chain, difficulty |-> difficulty,
         transaction_pool |-> transaction_pool, balances |-> balances]

\* SimpleBitcoinBlockchain.get_latest_block
get_latest_block(self) == self.chain[Len(self.chain)]

\* SimpleBitcoinBlockchain.get_balance
get_balance(self, address) == BalanceGet(self.balances, address)

RECURSIVE PendingSpend(_, _)
\* What the pending transactions of a sender will cost it.
PendingSpend(pool, sender) ==
    IF pool = <<>> THEN 0
    ELSE (IF pool[1].sender = sender THEN pool[1].amount + pool[1].fee ELSE 0)
         + PendingSpend(SubSeq(pool, 2, Len(pool)), sender)

\* add_transaction checking the balance net of the sender's pending transactions.
add_transaction_NetOfPending(self, transaction) ==
    IF ~is_valid(transaction)
    THEN [self |-> self, ret |-> FALSE, log |-> "Invalid transaction"]
    ELSE LET sender_balance == BalanceGet(self.balances, transaction.sender)
                                 - PendingSpend(self.transaction_pool, transaction.sender)
             total_required == transaction.amount + transaction.fee
         IN IF sender_balance < total_required
            THEN [self |-> self, ret |-> FALSE, log |-> "Insufficient balance"]
            ELSE [self |-> [self EXCEPT !.transaction_pool = Append(@, transaction)],
                  ret |-> TRUE, log |-> "Transaction added to mempool"]

\* add_transaction appending before it checks the balance.
add_transaction_AppendFirst(self, transaction) ==
    IF ~is_valid(transaction)
    THEN [self |-> self, ret |-> FALSE, log |-> "Invalid transaction"]
    ELSE LET sender_balance == BalanceGet(self.balances, transaction.sender)
             total_required == transaction.amount + transaction.fee
             appended == [self EXCEPT !.transaction_pool = Append(@, transaction)]
         IN IF sender_balance < total_required
            THEN [self |-> appended, ret |-> FALSE, log |-> "Insufficient balance"]
            ELSE [self |-> appended, ret |-> TRUE, log |-> "Transaction added to mempool"]

\* add_transaction debiting the sender as it accepts.
add_transaction_DebitNow(self, transaction) ==
    IF ~is_valid(transaction)
    THEN [self |-> self, ret |-> FALSE, log |-> "Invalid transaction"]
    ELSE LET sender_balance == BalanceGet(self.balances, transaction.sender)
             total_required == transaction.amount + transaction.fee
         IN IF sender_balance < total_required
            THEN [self |-> self, ret |-> FALSE, log |-> "Insufficient balance"]
            ELSE [self |-> [self EXCEPT
                              !.transaction_pool = Append(@, transaction),
                              !.balances = (transaction.sender :> sender_balance - total_required) @@ @],
                  ret |-> TRUE, log |-> "Transaction added to mempool"]

\* add_transaction printing the shortfall and returning True all the same.
add_transaction_Swallow(self, transaction) ==
    IF ~is_valid(transaction)
    THEN [self |-> self, ret |-> FALSE, log |-> "Invalid transaction"]
    ELSE LET sender_balance == BalanceGet(self.balances, transaction.sender)
             total_required == transaction.amount + transaction.fee
         IN IF sender_balance < total_required
            THEN [self |-> self, ret |-> TRUE, log |-> "Insufficient balance"]
            ELSE [self |-> [self EXCEPT !.transaction_pool = Append(@, transaction)],
                  ret |-> TRUE, log |-> "Transaction added to mempool"]

\* SimpleBitcoinBlockchain.add_transaction: the object after the call, the
\* returned bool and the line printed.
add_transaction(self, transaction) ==
    IF ~is_valid(transaction)
    THEN [self |-> self, ret |-> FALSE, log |-> "Invalid transaction"]
    ELSE LET sender_balance == BalanceGet(self.balances, transaction.sender)
             total_required == transaction.amount + transaction.fee
         IN IF sender_balance < total_required
            THEN [self |-> self, ret |-> FALSE, log |-> "Insufficient balance"]
            ELSE [self |-> [self EXCEPT !.transaction_pool = Append(@, transaction)],
                  ret |-> TRUE, log |-> "Transaction added to mempool"]

RECURSIVE SumFees(_)
\* sum(tx.fee for tx in self.transaction_pool)
SumFees(pool) ==
    IF pool = <<>> THEN 0 ELSE pool[1].fee + SumFees(SubSeq(pool, 2, Len(pool)))

\* BlockTransactions building the fee transaction whatever the sum of the fees.
BlockTransactions_FeeAlways(self, miner_address, t1, t2) ==
    LET coinbase_tx == Transaction("coinbase", miner_address, mining_reward, 0, t1)
        total_fees == SumFees(self.transaction_pool)
        fee_tx == Transaction("fees", miner_address, total_fees, 0, t2)
    IN <<coinbase_tx, fee_tx>> \o self.transaction_pool

\* The transactions list that SimpleBitcoinBlockchain.mine_block assembles;
\* A variant that takes the pool in the reverse of its order.
BlockTransactions_PoolReversed(self, miner_address, t1, t2) ==
    LET coinbase_tx == Transaction("coinbase", miner_address, mining_reward, 0, t1)
        total_fees == SumFees(self.transaction_pool)
        fee_tx == Transaction("fees", miner_address, total_fees, 0, t2)
        n == Len(self.transaction_pool)
        reversed == [i \in 1..n |-> self.transaction_pool[n + 1 - i]]
    IN IF total_fees > 0
       THEN <<coinbase_tx, fee_tx>> \o reversed
       ELSE <<coinbase_tx>> \o reversed

\* t1 and t2 are the clock readings of the two synthetic transactions.
BlockTransactions(self, miner_address, t1, t2) ==
    LET coinbase_tx == Transaction("coinbase", miner_address, mining_reward, 0, t1)
        total_fees == SumFees(self.transaction_pool)
        fee_tx == Transaction("fees", miner_address, total_fees, 0, t2)
    IN IF total_fees > 0
       THEN <<coinbase_tx, fee_tx>> \o self.transaction_pool
       ELSE <<coinbase_tx>> \o self.transaction_pool

\* NewBlock linking to the tip's hash at nonce 0 instead of its mined nonce.
NewBlock_StaleTip(self, transactions, t3) ==
    Block(Len(self.chain), t3, transactions,
          calculate_hash([get_latest_block(self) EXCEPT !.nonce = 0]),
          EmptyString, self.difficulty)

\* NewBlock taking the difficulty of the tip instead of the chain's.
NewBlock_TipDifficulty(self, transactions, t3) ==
    Block(Len(self.chain), t3, transactions,
          calculate_hash(get_latest_block(self)), EmptyString,
          get_latest_block(self).difficulty)

\* The Block that SimpleBitcoinBlockchain.mine_block constructs, before the search.
NewBlock(self, transactions, t3) ==
    Block(Len(self.chain), t3, transactions,
          calculate_hash(get_latest_block(self)), EmptyString, self.difficulty)

\* A variant of the commit that puts the new block in the place of the tip.
Commit_ReplaceTip(self, new_block, transactions) ==
    [self EXCEPT !.chain = Append(SubSeq(@, 1, Len(@) - 1), new_block),
                 !.balances = update_balances(@, transactions),
                 !.transaction_pool = <<>>]

\* The commit of mine_block: append, update the balances, clear the pool.
Commit(self, new_block, transactions) ==
    [self EXCEPT !.chain = Append(@, new_block),
                 !.balances = update_balances(@, transactions),
                 !.transaction_pool = <<>>]

\* mine_block committing the block without looking at the statistics, as
\* create_genesis_block does.
mine_block_Unchecked(self, miner_address, t1, t2, t3) ==
    IF self.transaction_pool = <<>>
    THEN [self |-> self, ret |-> <<>>, log |-> "No transactions to mine"]
    ELSE LET transactions == BlockTransactions(self, miner_address, t1, t2)
             searched == Block_mine_block(NewBlock(self, transactions, t3))
         IN [self |-> Commit(self, searched.block, transactions),
             ret |-> <<searched.block>>, log |-> "Block added to blockchain"]

\* mine_block leaving the pool as it was after a commit.
mine_block_KeepPool(self, miner_address, t1, t2, t3) ==
    IF self.transaction_pool = <<>>
    THEN [self |-> self, ret |-> <<>>, log |-> "No transactions to mine"]
    ELSE LET transactions == BlockTransactions(self, miner_address, t1, t2)
             searched == Block_mine_block(NewBlock(self, transactions, t3))
         IN IF searched.stats # <<>>
            THEN [self |-> [Commit(self, searched.block, transactions)
                               EXCEPT !.transaction_pool = self.transaction_pool],
                  ret |-> <<searched.block>>, log |-> "Block added to blockchain"]
            ELSE [self |-> self, ret |-> <<>>, log |-> "Stopping after attempts"]

\* mine_block without the test for an empty pool.
mine_block_NoEmptyTest(self, miner_address, t1, t2, t3) ==
    LET transactions == BlockTransactions(self, miner_address, t1, t2)
        searched == Block_mine_block(NewBlock(self, transactions, t3))
    IN IF searched.stats # <<>>
       THEN [self |-> Commit(self, searched.block, transactions),
             ret |-> <<searched.block>>, log |-> "Block added to blockchain"]
       ELSE [self |-> self, ret |-> <<>>, log |-> "Stopping after attempts"]

\* mine_block clearing the pool after the if, whatever the search returned.
mine_block_ClearAlways(self, miner_address, t1, t2, t3) ==
    IF self.transaction_pool = <<>>
    THEN [self |-> self, ret |-> <<>>, log |-> "No transactions to mine"]
    ELSE LET transactions == BlockTransactions(self, miner_address, t1, t2)
             searched == Block_mine_block(NewBlock(self, transactions, t3))
         IN IF searched.stats # <<>>
            THEN [self |-> Commit(self, searched.block, transactions),
                  ret |-> <<searched.block>>, log |-> "Block added to blockchain"]
            ELSE [self |-> [self EXCEPT !.transaction_pool = <<>>],
                  ret |-> <<>>, log |-> "Stopping after attempts"]

\* SimpleBitcoinBlockchain.mine_block: the object after the call, the returned
\* Optional[Block] (<<>> for None) and the last line printed.
mine_block(self, miner_address, t1, t2, t3) ==
    IF self.transaction_pool = <<>>
    THEN [self |-> self, ret |-> <<>>, log |-> "No transactions to mine"]
    ELSE LET transactions == BlockTransactions(self, miner_address, t1, t2)
             searched == Block_mine_block(NewBlock(self, transactions, t3))
             new_block == searched.block
         IN IF searched.stats # <<>>
            THEN [self |-> Commit(self, new_block, transactions),
                  ret |-> <<new_block>>, log |-> "Block added to blockchain"]
            ELSE [self |-> self, ret |-> <<>>, log |-> "Stopping after attempts"]

\* adjust_difficulty with the two comparisons made inclusive.
adjust_difficulty_Inclusive(self) ==
    IF Len(self.chain) < Window
    THEN [self |-> self, log |-> ""]
    ELSE LET recent_first == self.chain[Len(self.chain) - Window + 1]
             recent_last == self.chain[Len(self.chain)]
             time_diff == recent_last.timestamp - recent_first.timestamp
         IN IF time_diff * 10 <= TargetTime * 8 * (Window - 1)
            THEN [self |-> [self EXCEPT !.difficulty = @ + 1],
                  log |-> "Difficulty increased"]
            ELSE IF time_diff * 10 >= TargetTime * 12 * (Window - 1)
            THEN [self |-> [self EXCEPT !.difficulty = IF @ - 1 > 1 THEN @ - 1 ELSE 1],
                  log |-> "Difficulty decreased"]
            ELSE [self |-> self, log |-> ""]

\* adjust_difficulty decrementing without the max(1, ...).
adjust_difficulty_NoFloor(self) ==
    IF Len(self.chain) < Window
    THEN [self |-> self, log |-> ""]
    ELSE LET recent_first == self.chain[Len(self.chain) - Window + 1]
             recent_last == self.chain[Len(self.chain)]
             time_diff == recent_last.timestamp - recent_first.timestamp
         IN IF time_diff * 10 < TargetTime * 8 * (Window - 1)
            THEN [self |-> [self EXCEPT !.difficulty = @ + 1],
                  log |-> "Difficulty increased"]
            ELSE IF time_diff * 10 > TargetTime * 12 * (Window - 1)
            THEN [self |-> [self EXCEPT !.difficulty = @ - 1],
                  log |-> "Difficulty decreased"]
            ELSE [self |-> self, log |-> ""]

\* SimpleBitcoinBlockchain.adjust_difficulty.  average_time = time_diff / 9 is
\* compared with 0.8 and 1.2 times the target: the comparisons are multiplied
\* through by 9 * 10 to stay in the integers.
adjust_difficulty(self) ==
    IF Len(self.chain) < Window
    THEN [self |-> self, log |-> ""]
    ELSE LET recent_first == self.chain[Len(self.chain) - Window + 1]
             recent_last == self.chain[Len(self.chain)]
             time_diff == recent_last.timestamp - recent_first.timestamp
         IN IF time_diff * 10 < TargetTime * 8 * (Window - 1)
            THEN [self |-> [self EXCEPT !.difficulty = @ + 1],
                  log |-> "Difficulty increased"]
            ELSE IF time_diff * 10 > TargetTime * 12 * (Window - 1)
            THEN [self |-> [self EXCEPT !.difficulty = IF @ - 1 > 1 THEN @ - 1 ELSE 1],
                  log |-> "Difficulty decreased"]
            ELSE [self |-> self, log |-> ""]

\* is_chain_valid holding the genesis block to its difficulty too.
is_chain_valid_FromGenesis(self) ==
    \A i \in 1..Len(self.chain) :
        /\ StartsWithZeros(calculate_hash(self.chain[i]), self.chain[i].difficulty)
        /\ i > 1 => self.chain[i].previous_hash = calculate_hash(self.chain[i - 1])

\* is_chain_valid holding every block to the chain's current difficulty.
is_chain_valid_CurrentDifficulty(self) ==
    \A i \in 2..Len(self.chain) :
        /\ StartsWithZeros(calculate_hash(self.chain[i]), self.difficulty)
        /\ self.chain[i].previous_hash = calculate_hash(self.chain[i - 1])

\* SimpleBitcoinBlockchain.is_chain_valid
is_chain_valid(self) ==
    \A i \in 2..Len(self.chain) :
        /\ StartsWithZeros(calculate_hash(self.chain[i]), self.chain[i].difficulty)
        /\ self.chain[i].previous_hash = calculate_hash(self.chain[i - 1])


----------------------------------------------------------------------------
(* Construction *)

\* SimpleBitcoinBlockchain.__init__ up to the call of create_genesis_block.
NewSelf == [chain |-> <<>>, difficulty |-> InitialDifficulty,
            transaction_pool |-> <<>>, balances |-> ("genesis" :> GenesisSupply)]

\* create_genesis_block appending the block without applying its transaction.
create_genesis_block_NoBalances(self, t1, t2) ==
    LET genesis_tx == Transaction("genesis", "miner1", GenesisAmount, DefaultFee, t1)
        genesis_block == Block(0, t2, <<genesis_tx>>, ZeroHash, EmptyString,
                               self.difficulty)
        searched == Block_mine_block(genesis_block)
    IN [self |-> [self EXCEPT !.chain = Append(@, searched.block)],
        raised |-> searched.stats = <<>>]

\* SimpleBitcoinBlockchain.create_genesis_block; t1 and t2 are its two clock
\* readings.  The block is appended and the balances updated whatever the search
\* returned; with no statistics, mining_stats['hash'] then raises TypeError
\* (raised), which leaves __init__ without an object.
create_genesis_block(self, t1, t2) ==
    LET genesis_tx == Transaction("genesis", "miner1", GenesisAmount, DefaultFee, t1)
        genesis_block == Block(0, t2, <<genesis_tx>>, ZeroHash, EmptyString,
                               self.difficulty)
        searched == Block_mine_block(genesis_block)
    IN [self |-> [self EXCEPT
                    !.chain = Append(@, searched.block),
                    !.balances = update_balances(@, <<genesis_tx>>)],
        raised |-> searched.stats = <<>>]

----------------------------------------------------------------------------
(* The chain as a state machine: one action for each call of the API. *)

\* The transactions a caller may build at the present instant.
Amounts == {0, GenesisAmount}
Fees == {-1, 0, DefaultFee}
Callers == {"", "miner1", "alice"}
TxUniverse ==
    {Transaction(s, r, a, f, now) :
        s \in Callers, r \in Callers, a \in Amounts, f \in Fees}

\* The transactions callers submit: the well-formed ones, and one for each way
\* of being malformed.
TxInputs ==
    {tx \in TxUniverse : is_valid(tx)}
    \cup {Transaction("miner1", "miner1", GenesisAmount, 0, now),
          Transaction("miner1", "alice", 0, 0, now),
          Transaction("miner1", "alice", GenesisAmount, -1, now),
          Transaction("", "alice", GenesisAmount, 0, now),
          Transaction("miner1", "", GenesisAmount, 0, now)}

\* The miner addresses callers pass.
Miners == {"miner1", "coinbase", "fees"}

\* The value of mining while no Block.mine_block call is running.
MineIdle == [block |-> <<>>, attempts |-> 0, pc |-> "idle", stats |-> <<>>]

\* The state after SimpleBitcoinBlockchain() has returned.
Init ==
    \E t1 \in 0..MaxTime, t2 \in 0..MaxTime :
        /\ t1 <= t2
        /\ LET made == create_genesis_block(NewSelf, t1, t2)
           IN /\ ~made.raised
              /\ chain = made.self.chain
              /\ difficulty = made.self.difficulty
              /\ transaction_pool = made.self.transaction_pool
              /\ balances = made.self.balances
              /\ mining = MineIdle
              /\ app = NoApp
              /\ txn = NoTxn
        /\ now = t2
        /\ last = [op |-> "__init__", ret |-> <<>>, log |-> "Genesis block created"]

SetSelf(self) ==
    /\ chain' = self.chain
    /\ difficulty' = self.difficulty
    /\ transaction_pool' = self.transaction_pool
    /\ balances' = self.balances

\* The value of last after a step that is no call of the API.
NoCall == [op |-> "", ret |-> <<>>, log |-> ""]

\* Time passes between two calls.
Tick ==
    /\ now < MaxTime
    /\ now' = now + 1
    /\ last' = NoCall
    /\ UNCHANGED <<chain, difficulty, transaction_pool, balances, mining, app, txn>>

RECURSIVE Confirmed(_)
\* The number of submitted transactions in the blocks of a chain: a block built
\* by mine_block holds the reward transaction, the fee transaction if the fees
\* are positive, and the pool.
Confirmed(blocks) ==
    IF Len(blocks) <= 1 THEN 0
    ELSE LET txs == blocks[Len(blocks)].transactions
         IN Confirmed(SubSeq(blocks, 1, Len(blocks) - 1))
            + (IF SumFees(txs) > 0 THEN Len(txs) - 2 ELSE Len(txs) - 1)

\* blockchain.add_transaction(tx)
Submit(tx) ==
    LET done == add_transaction(Self, tx)
    IN /\ Confirmed(chain) + Len(done.self.transaction_pool) <= MaxTx
       /\ SetSelf(done.self)
       /\ last' = [op |-> "add_transaction", ret |-> done.ret, log |-> done.log]
       /\ UNCHANGED <<now, mining, app, txn>>

\* blockchain.mine_block(miner_address).  The call reads the clock up to three
\* times before it starts the search; the three readings are taken to be the
\* same instant.
Mine(miner_address) ==
    LET done == mine_block(Self, miner_address, now, now, now)
    IN /\ SetSelf(done.self)
       /\ last' = [op |-> "mine_block", ret |-> done.ret, log |-> done.log]
       /\ UNCHANGED <<now, mining, app, txn>>

\* blockchain.adjust_difficulty()
Adjust ==
    LET done == adjust_difficulty(Self)
    IN /\ SetSelf(done.self)
       /\ last' = [op |-> "adjust_difficulty", ret |-> <<>>, log |-> done.log]
       /\ UNCHANGED <<now, mining, app, txn>>

Next ==
    \/ Tick
    \/ \E tx \in TxInputs : Submit(tx)
    \/ \E m \in Miners : Mine(m)
    \/ Adjust

Spec == Init /\ [][Next]_vars


----------------------------------------------------------------------------
(* The same calls made by callers who pay fees: transfers of a quarter of the
   genesis amount between miner1 and alice, with the default fee or without. *)

\* 25.0, the amount of the transfers.
TransferAmount == 25 * Milli

FeeTxInputs ==
    {Transaction(s, r, TransferAmount, f, now) :
        s \in {"miner1", "alice"}, r \in {"miner1", "alice"}, f \in {0, DefaultFee}}

FeeMiners == {"miner1", "alice"}

FeeNext ==
    \/ Tick
    \/ \E tx \in FeeTxInputs : Submit(tx)
    \/ \E m \in FeeMiners : Mine(m)
    \/ Adjust

FeeSpec == Init /\ [][FeeNext]_vars

----------------------------------------------------------------------------
(* The same calls over a long life of the chain: the clock moves in eras of
   0.4 target intervals of the look-back window, "genesis" pays one coin at a
   time as the callers of test_difficulty_adjustment do, and the chain grows
   past the ten blocks adjust_difficulty looks back on. *)

\* An era: four tenths of the nine target intervals between ten blocks, so
\* that the average block time of a window is a multiple of 0.4 * target_time.
Era == (4 * TargetTime * (Window - 1)) \div 10

\* Transaction("genesis", ..., 1.0, fee=0.001)
LongTxInputs == {Transaction("genesis", "alice", Milli, f, now) : f \in {0, DefaultFee}}

LongMiners == {"miner1", "alice"}

\* The callers of the first rounds take turns, as the miners of
\* test_difficulty_adjustment do (miner{i % 3}): the fee submitted and the miner
\* address passed while the chain holds n blocks, n < Window - 1.
EarlyRound(n) ==
    CASE n % 3 = 1 -> [miner |-> "miner1", fee |-> 0]
      [] n % 3 = 2 -> [miner |-> "miner1", fee |-> DefaultFee]
      [] OTHER -> [miner |-> "alice", fee |-> 0]

\* Time passes between two calls, an era at a time.  The first blocks are mined
\* in quick succession: the clock stands until the chain holds Window - 1 blocks.
Elapse ==
    /\ Len(chain) >= Window - 1
    /\ now + Era <= MaxTime + MaxEras * Era
    /\ now' = now + Era
    /\ last' = NoCall
    /\ UNCHANGED <<chain, difficulty, transaction_pool, balances, mining, app, txn>>

\* blockchain.add_transaction(tx).  The callers submit one transaction for each
\* block, as test_difficulty_adjustment does: they call while the pool is empty.
LongSubmit(tx) ==
    LET done == add_transaction(Self, tx)
    IN /\ transaction_pool = <<>>
       /\ Len(chain) < Window - 1 => tx.fee = EarlyRound(Len(chain)).fee
       /\ SetSelf(done.self)
       /\ last' = [op |-> "add_transaction", ret |-> done.ret, log |-> done.log]
       /\ UNCHANGED <<now, mining, app, txn>>

\* blockchain.mine_block(miner_address), while the chain holds fewer than MaxBlocks blocks.
LongMine(miner_address) ==
    /\ Len(chain) < MaxBlocks
    /\ Len(chain) < Window - 1 => miner_address = EarlyRound(Len(chain)).miner
    /\ Mine(miner_address)

\* blockchain.adjust_difficulty(), while the difficulty is at most MaxDifficulty.
LongAdjust ==
    /\ difficulty <= MaxDifficulty
    /\ Adjust

LongNext ==
    \/ Elapse
    \/ \E tx \in LongTxInputs : LongSubmit(tx)
    \/ \E m \in LongMiners : LongMine(m)
    \/ LongAdjust

LongSpec == Init /\ [][LongNext]_vars

----------------------------------------------------------------------------
(* is_chain_valid as a function of the stored chain: the chains the API builds
   in a few calls, one stored field of one block then assigned a different
   value (the corruption a caller holding blockchain.chain can cause), and the
   call of is_chain_valid on the result. *)

RECURSIVE SubmitAll(_, _)
\* blockchain.add_transaction(tx) for each tx of a list, in order.
SubmitAll(self, txs) ==
    IF txs = <<>> THEN self
    ELSE SubmitAll(add_transaction(self, txs[1]).self, SubSeq(txs, 2, Len(txs)))

\* The pools a round submits at instant t: one or two transfers from miner1 to alice.
AuditPools(t) ==
    LET transfers == {Transaction("miner1", "alice", TransferAmount, f, t) :
                         f \in {0, DefaultFee}}
    IN {<<x>> : x \in transfers} \cup {<<x, y>> : x \in transfers, y \in transfers}

RECURSIVE Built(_)
\* The objects that a construction and at most k rounds leave, a round being
\* the submissions of a pool and a successful mine_block("miner1").
Built(k) ==
    IF k = 0
    THEN {create_genesis_block(NewSelf, t[1], t[2]).self :
             t \in {u \in (0..MaxTime) \X (0..MaxTime) :
                       /\ u[1] <= u[2]
                       /\ ~create_genesis_block(NewSelf, u[1], u[2]).raised}}
    ELSE LET earlier == Built(k - 1)
             rounds == {<<s, t, p>> : s \in earlier, t \in 0..MaxTime,
                                     p \in UNION {AuditPools(u) : u \in 0..MaxTime}}
             done(r) == mine_block(SubmitAll(r[1], r[3]), "miner1", r[2], r[2], r[2])
         IN earlier \cup
            {done(r).self : r \in {q \in rounds :
                                     /\ q[2] >= get_latest_block(q[1]).timestamp
                                     /\ \A i \in 1..Len(q[3]) : q[3][i].timestamp = q[2]
                                     /\ done(q).ret # <<>>}}

AuditInit ==
    /\ \E self \in Built(MaxRounds) :
          /\ chain = self.chain
          /\ difficulty = self.difficulty
          /\ transaction_pool = self.transaction_pool
          /\ balances = self.balances
          /\ now = get_latest_block(self).timestamp
    /\ last = NoCall
    /\ mining = MineIdle
    /\ app = NoApp
    /\ txn = NoTxn

\* The values a stored field of block b can be given in the place of its own.
Corruptions(b) ==
    LET txs == b.transactions
        n == Len(txs)
    IN {[field |-> "transactions", value |-> v] :
            v \in IF n = 0 THEN {}
                  ELSE {SubSeq(txs, 1, n - 1),
                        Append(txs, txs[1]),
                        [i \in 1..n |-> txs[n + 1 - i]],
                        [txs EXCEPT ![n].amount = @ + Milli]} \ {txs}}
       \cup {[field |-> "previous_hash", value |-> v] :
                v \in {ZeroHash, calculate_hash(b)} \ {b.previous_hash}}
       \cup {[field |-> "nonce", value |-> b.nonce + 1]}
       \cup {[field |-> "difficulty", value |-> v] : v \in {0, b.difficulty + 1}}
       \cup {[field |-> "timestamp", value |-> b.timestamp + 1]}

\* blockchain.chain[i - 1].<field> = value, for a block of the chain
\* (i counts the blocks from 1).
Corrupt(i, c) ==
    /\ last.op = ""
    /\ chain' = [chain EXCEPT ![i] =
                    CASE c.field = "transactions" -> [@ EXCEPT !.transactions = c.value]
                      [] c.field = "previous_hash" -> [@ EXCEPT !.previous_hash = c.value]
                      [] c.field = "nonce" -> [@ EXCEPT !.nonce = c.value]
                      [] c.field = "difficulty" -> [@ EXCEPT !.difficulty = c.value]
                      [] c.field = "timestamp" -> [@ EXCEPT !.timestamp = c.value]]
    /\ last' = [op |-> "corrupt", ret |-> <<>>, log |-> c.field]
    /\ UNCHANGED <<difficulty, transaction_pool, balances, now, mining, app, txn>>

\* blockchain.is_chain_valid(); ret holds the returned bool in a tuple.
Validate ==
    /\ last.op # "is_chain_valid"
    /\ last' = [op |-> "is_chain_valid", ret |-> <<is_chain_valid(Self)>>,
                log |-> IF is_chain_valid(Self) THEN "Blockchain is valid" ELSE "invalid"]
    /\ UNCHANGED <<chain, difficulty, transaction_pool, balances, now, mining, app, txn>>

AuditNext ==
    \/ \E i \in 1..Len(chain) : \E c \in Corruptions(chain[i]) : Corrupt(i, c)
    \/ Validate

AuditSpec == AuditInit /\ [][AuditNext]_vars

----------------------------------------------------------------------------
(* Block.mine_block as a state machine: one step for each pass of its loop. *)

\* The blocks a caller may hand to Block.mine_block.
MineBlocks ==
    {[Block(i, t, txs, ZeroHash, EmptyString, d) EXCEPT !.nonce = n] :
        i \in 0..1, t \in 0..MaxTime,
        txs \in {<<>>, <<Transaction("alice", "miner1", GenesisAmount, DefaultFee, 0)>>},
        d \in {0, 1, 2, InitialDifficulty, SigChars + 1, HexLen + 1},
        n \in 0..1}

\* A call of Block.mine_block has just been made; last.ret keeps the Block as
\* it was handed over, its starting nonce with it.
MineInit ==
    /\ mining \in {MineStart(b) : b \in MineBlocks}
    /\ app = NoApp
    /\ txn = NoTxn
    /\ chain = <<>>
    /\ difficulty = InitialDifficulty
    /\ transaction_pool = <<>>
    /\ balances = <<>>
    /\ now = 0
    /\ last = [op |-> "Block.mine_block", ret |-> <<mining.block>>, log |-> ""]

\* One pass of the while loop.  The guard on attempts caps the counter; the
\* loop as written never reaches the cap.
MineStep ==
    /\ mining.pc = "loop"
    /\ mining.attempts <= MaxAttempts + 1
    /\ mining' = MineIteration(mining)
    /\ UNCHANGED <<chain, difficulty, transaction_pool, balances, now, last, app, txn>>

MineNext == MineStep

\* The interpreter keeps running the loop: a pass that can be made is made.
MineSpec == MineInit /\ [][MineNext]_vars /\ WF_vars(MineStep)


----------------------------------------------------------------------------
(* Every call of the API, the two queries included, made with any string as
   the miner address: the reserved names "coinbase" and "fees" and the empty
   string among them. *)

ApiTxInputs ==
    {Transaction("miner1", "alice", TransferAmount, f, now) : f \in {0, DefaultFee}}

ApiMiners == {"miner1", "coinbase", "fees", ""}

\* blockchain.get_balance(address)
GetBalance(address) ==
    /\ last' = [op |-> "get_balance", ret |-> <<get_balance(Self, address)>>, log |-> address]
    /\ UNCHANGED <<chain, difficulty, transaction_pool, balances, now, mining, app, txn>>

ApiNext ==
    \/ \E tx \in ApiTxInputs : Submit(tx)
    \/ \E m \in ApiMiners : Mine(m)
    \/ Adjust
    \/ Validate
    \/ \E a \in {"miner1", "fees"} : GetBalance(a)

ApiSpec == Init /\ [][ApiNext]_vars

----------------------------------------------------------------------------
(* Transaction and Block as values: their methods applied to given objects. *)

\* The Transaction objects whose hash and validity are asked for.
PureTxs ==
    {Transaction(s, r, a, f, t) :
        s \in {"", "alice", "miner1"}, r \in {"", "alice", "miner1"},
        a \in {0, Milli}, f \in {-1, 0}, t \in {0, 1}}

\* The transactions of the lists a Merkle root is computed over.
MerkleTxs ==
    {Transaction("alice", "miner1", Milli, 0, 0),
     Transaction("miner1", "alice", Milli, 0, 0),
     Transaction("alice", "miner1", Milli, 0, 1)}

\* The lists of transactions handed over: pairs of objects, and lists of up
\* to MaxLen transactions in which an object may occur more than once.
PureLists ==
    {<<a, b>> : a \in PureTxs, b \in PureTxs}
        \cup UNION {[1..n -> MerkleTxs] : n \in 0..MaxLen}

\* The balance tables in force while the methods run.
PureBalances == {<<>>, [a \in {"alice", "miner1"} |-> GenesisAmount]}

PureInit ==
    /\ transaction_pool \in PureLists
    /\ balances \in PureBalances
    /\ chain = <<>>
    /\ difficulty = InitialDifficulty
    /\ now = 0
    /\ last = NoCall
    /\ mining = MineIdle
    /\ app = NoApp
    /\ txn = NoTxn

\* tx.get_hash() of every transaction of the list.
CallGetHash ==
    /\ last' = [op |-> "get_hash",
                ret |-> [i \in 1..Len(transaction_pool) |-> get_hash(transaction_pool[i])],
                log |-> ""]
    /\ UNCHANGED <<chain, difficulty, transaction_pool, balances, now, mining, app, txn>>

\* tx.is_valid() of every transaction of the list.
CallIsValid ==
    /\ last' = [op |-> "is_valid",
                ret |-> [i \in 1..Len(transaction_pool) |-> is_valid(transaction_pool[i])],
                log |-> ""]
    /\ UNCHANGED <<chain, difficulty, transaction_pool, balances, now, mining, app, txn>>

\* Block.calculate_merkle_root over the list.
CallMerkleRoot ==
    /\ last' = [op |-> "calculate_merkle_root",
                ret |-> <<calculate_merkle_root(transaction_pool)>>,
                log |-> ""]
    /\ UNCHANGED <<chain, difficulty, transaction_pool, balances, now, mining, app, txn>>

\* Block(1, now, transactions, "0" * 64, merkle_root, difficulty): the object
\* built is kept in chain; log tells whether a root was supplied.
Construct(merkle_root) ==
    /\ chain' = <<Block(1, now, transaction_pool, ZeroHash, merkle_root, difficulty)>>
    /\ last' = [op |-> "Block", ret |-> <<>>,
                log |-> IF merkle_root = EmptyString THEN "" ELSE "supplied"]
    /\ UNCHANGED <<difficulty, transaction_pool, balances, now, mining, app, txn>>

PureNext ==
    \/ CallGetHash
    \/ CallIsValid
    \/ CallMerkleRoot
    \/ \E merkle_root \in {EmptyString, sha256(<<>>)} : Construct(merkle_root)

PureSpec == PureInit /\ [][PureNext]_vars

----------------------------------------------------------------------------
(* The basic counter application (simple_counter.py) on the Algorand ledger. *)

\* A TEAL value as the ledger stores it: type 1 is a byte slice, type 2 a uint64.
Bytes(b) == [type |-> 1, bytes |-> b, uint |-> 0]
Uint(n) == [type |-> 2, bytes |-> "", uint |-> n]

\* App.globalGet: a key that is not set reads as the integer 0.
globalGet(g, key) == IF key \in DOMAIN g THEN g[key] ELSE Uint(0)

\* App.globalPut
globalPut(g, key, value) ==
    IF key \in DOMAIN g THEN [g EXCEPT ![key] = value] ELSE (key :> value) @@ g

\* The outcome of a program: Return(Int(1)) with the global state it wrote, or
\* a rejection (Return(Int(0)), a failed Assert, an error), which writes nothing.
Approve(g) == [approved |-> TRUE, global_state |-> g]
Reject(g) == [approved |-> FALSE, global_state |-> g]

\* get_global_schema()
get_global_schema == StateSchema(4, 0)

on_creation(g, t) ==
    Approve(globalPut(globalPut(globalPut(globalPut(g,
        "counter", Uint(0)),
        "creator", Bytes(t.sender)),
        "total_increments", Uint(0)),
        "total_decrements", Uint(0)))

\* A variant of on_increment whose Assert lets the counter pass the limit by one.
on_increment_Inclusive(g, t) ==
    LET counter == globalGet(g, "counter")
        total == globalGet(g, "total_increments")
    IN IF counter.type # 2 \/ ~(counter.uint <= CounterLimit) THEN Reject(g)
       ELSE IF counter.uint + 1 > MaxUint THEN Reject(g)
       ELSE IF total.type # 2 \/ total.uint + 1 > MaxUint THEN Reject(g)
       ELSE Approve(globalPut(globalPut(g,
                "counter", Uint(counter.uint + 1)),
                "total_increments", Uint(total.uint + 1)))

\* on_increment.  The operands of < and + must be integers, and a sum above
\* the largest uint64 is an error.
on_increment(g, t) ==
    LET counter == globalGet(g, "counter")
        total == globalGet(g, "total_increments")
    IN IF counter.type # 2 \/ ~(counter.uint < CounterLimit) THEN Reject(g)
       ELSE IF counter.uint + 1 > MaxUint THEN Reject(g)
       ELSE IF total.type # 2 \/ total.uint + 1 > MaxUint THEN Reject(g)
       ELSE Approve(globalPut(globalPut(g,
                "counter", Uint(counter.uint + 1)),
                "total_increments", Uint(total.uint + 1)))

on_decrement(g, t) ==
    LET counter == globalGet(g, "counter")
        total == globalGet(g, "total_decrements")
    IN IF counter.type # 2 \/ ~(counter.uint > 0) THEN Reject(g)
       ELSE IF total.type # 2 \/ total.uint + 1 > MaxUint THEN Reject(g)
       ELSE Approve(globalPut(globalPut(g,
                "counter", Uint(counter.uint - 1)),
                "total_decrements", Uint(total.uint + 1)))

\* A variant of on_reset without the Assert on the sender.
on_reset_Anyone(g, t) ==
    Approve(globalPut(g, "counter", Uint(0)))

\* on_reset.  == compares two byte slices; an integer on one side is an error.
on_reset(g, t) ==
    LET creator == globalGet(g, "creator")
    IN IF creator.type # 1 \/ t.sender # creator.bytes THEN Reject(g)
       ELSE Approve(globalPut(g, "counter", Uint(0)))

\* approval_program: the outer Cond, and the inner Cond, which is an error when
\* the first argument is none of the three method names.
approval_program(g, t) ==
    IF t.application_id = 0 THEN on_creation(g, t)
    ELSE IF t.on_completion = "NoOp" /\ Len(t.application_args) > 0
    THEN CASE t.application_args[1] = "increment" -> on_increment(g, t)
           [] t.application_args[1] = "decrement" -> on_decrement(g, t)
           [] t.application_args[1] = "reset" -> on_reset(g, t)
           [] OTHER -> Reject(g)
    ELSE Reject(g)

\* The global keys that hold a value of the given type.
KeysOfType(g, type) == {k \in DOMAIN g : g[k].type = type}

\* The ledger's check of a global state against the schema declared at creation.
FitsSchema(g, schema) ==
    /\ Cardinality(KeysOfType(g, 2)) <= schema.num_ints
    /\ Cardinality(KeysOfType(g, 1)) <= schema.num_byte_slices

\* The accounts that send transactions.
Accounts == {"alice", "bob"}

\* The global schemas a creation transaction declares: the one of
\* get_global_schema and create_app, and one with a byte-slice slot.
CreateSchemas == {get_global_schema, StateSchema(3, 1)}

OnCompletions ==
    {"NoOp", "OptIn", "CloseOut", "ClearState", "UpdateApplication", "DeleteApplication"}

ApplicationArgs == {<<>>, <<"increment">>, <<"decrement">>, <<"reset">>, <<"get_info">>}

CounterInit ==
    /\ app = NoApp
    /\ txn = NoTxn
    /\ chain = <<>>
    /\ difficulty = InitialDifficulty
    /\ transaction_pool = <<>>
    /\ balances = <<>>
    /\ now = 0
    /\ last = NoCall
    /\ mining = MineIdle

\* An ApplicationCreateTxn (application id 0, on_complete NoOp) is evaluated:
\* the application exists once the approval program has approved and the
\* global state it wrote fits the declared schema; otherwise the transaction
\* fails and leaves nothing.
CreateApp(sender, schema) ==
    LET t == [sender |-> sender, application_id |-> 0, on_completion |-> "NoOp",
              application_args |-> <<>>, global_schema |-> schema]
        run == approval_program(<<>>, t)
        done == run.approved /\ FitsSchema(run.global_state, schema)
    IN /\ app.id = 0
       /\ txn' = t
       /\ app' = IF done
                 THEN [id |-> 1, global_schema |-> schema, global_state |-> run.global_state]
                 ELSE app
       /\ last' = [op |-> "ApplicationCreateTxn", ret |-> <<done>>, log |-> ""]
       /\ UNCHANGED <<chain, difficulty, transaction_pool, balances, now, mining>>

\* A call of the application is evaluated.  ClearState needs the sender to
\* have opted in, which the approval program lets nobody do; every other call
\* runs the approval program, and takes effect if it approves and the state
\* fits the schema.
CallApp(sender, on_completion, application_args) ==
    LET t == [sender |-> sender, application_id |-> app.id,
              on_completion |-> on_completion,
              application_args |-> application_args,
              global_schema |-> StateSchema(0, 0)]
        run == IF on_completion = "ClearState" THEN Reject(app.global_state)
               ELSE approval_program(app.global_state, t)
        done == run.approved /\ FitsSchema(run.global_state, app.global_schema)
    IN /\ app.id # 0
       /\ txn' = t
       /\ app' = IF ~done THEN app
                 ELSE IF on_completion = "DeleteApplication" THEN NoApp
                 ELSE [app EXCEPT !.global_state = run.global_state]
       /\ last' = [op |-> "ApplicationCallTxn", ret |-> <<done>>, log |-> ""]
       /\ UNCHANGED <<chain, difficulty, transaction_pool, balances, now, mining>>

CounterNext ==
    \/ \E sender \in Accounts, schema \in CreateSchemas : CreateApp(sender, schema)
    \/ \E sender \in Accounts, oc \in OnCompletions, args \in ApplicationArgs :
          CallApp(sender, oc, args)

CounterSpec == CounterInit /\ [][CounterNext]_vars

----------------------------------------------------------------------------
(* What the last step was, read from the record it left in last. *)

Submitted == last.op = "add_transaction"
Accepted == Submitted /\ last.ret = TRUE
Rejected == Submitted /\ last.ret = FALSE
MineCalled == last.op = "mine_block"
MineSucceeded == MineCalled /\ last.ret # <<>>
MineFailed == MineCalled /\ last.ret = <<>>

\* The miner address of a block built by mine_block: the receiver of its first transaction.
MinerOf(b) == b.transactions[1].receiver
\* The pooled transactions of a block built by mine_block.
PooledOf(b) ==
    LET k == IF Len(b.transactions) >= 2 /\ b.transactions[2].sender = "fees"
                /\ b.transactions[2].fee = 0 /\ b.transactions[2].receiver = MinerOf(b)
                /\ b.transactions[2].amount = SumFees(SubSeq(b.transactions, 3, Len(b.transactions)))
                /\ b.transactions[2].amount > 0
             THEN 3 ELSE 2
    IN SubSeq(b.transactions, k, Len(b.transactions))
Tip == chain[Len(chain)]

----------------------------------------------------------------------------
(* C1 *)

\* C1: in every reachable state, for every i >= 1 (0-based), the stored
\* previous_hash of chain[i] equals the recomputed hash of chain[i-1].
C1_ChainLinked ==
    \A i \in 2..Len(chain) : chain[i].previous_hash = calculate_hash(chain[i - 1])

\* Three blocks, the middle one found at a nonce other than 0.
C1_Witness == Len(chain) >= 3 /\ chain[2].nonce > 0 /\ chain[1].nonce > 0

----------------------------------------------------------------------------
(* C2 *)

\* C2: every block in the chain, the genesis block included, has a hash with at
\* least as many leading zero characters as its own stored difficulty, and is
\* the block a successful nonce search from 0 left: a block whose search did
\* not succeed is never in the chain.
C2_ProofOfWork ==
    \A i \in 1..Len(chain) :
        /\ StartsWithZeros(calculate_hash(chain[i]), chain[i].difficulty)
        /\ LET searched == Block_mine_block([chain[i] EXCEPT !.nonce = 0])
           IN searched.stats # <<>> /\ searched.block = chain[i]

\* A search has just hit the ceiling, and the chain holds mined blocks only.
C2_Witness ==
    /\ MineFailed /\ last.log = "Stopping after attempts"
    /\ Len(chain) >= 2 /\ chain[2].nonce > 0

----------------------------------------------------------------------------
(* C3 *)

\* C3 as stated: after a successful mine_pending(miner), for any miner address,
\* the mempool is empty, the chain is longer by exactly 1 and the miner's
\* balance has grown by at least the mining reward.
C3_Original ==
    [][(MineSucceeded' /\ transaction_pool # <<>>) =>
          /\ transaction_pool' = <<>>
          /\ Len(chain') = Len(chain) + 1
          /\ BalanceGet(balances', MinerOf(Tip')) - BalanceGet(balances, MinerOf(Tip'))
                >= mining_reward]_vars

\* C3, amended: after a successful mine_pending(miner) the mempool is empty and
\* the chain is longer by exactly 1; the miner's balance has grown by at least
\* the mining reward when the miner is not the sender of a pooled transaction
\* and is not a "coinbase" address that held a balance entry before the call.
C3_Amended ==
    [][(MineSucceeded' /\ transaction_pool # <<>>) =>
          /\ transaction_pool' = <<>>
          /\ Len(chain') = Len(chain) + 1
          /\ ( (/\ \A i \in 1..Len(transaction_pool) :
                       transaction_pool[i].sender # MinerOf(Tip')
                /\ ~(MinerOf(Tip') = "coinbase" /\ "coinbase" \in DOMAIN balances))
               => BalanceGet(balances', MinerOf(Tip')) - BalanceGet(balances, MinerOf(Tip'))
                     >= mining_reward )]_vars

\* A block has just been mined by an address that sent none of its transactions.
C3_Witness ==
    /\ MineSucceeded
    /\ Len(chain) >= 2
    /\ \A i \in 1..Len(PooledOf(Tip)) : PooledOf(Tip)[i].sender # MinerOf(Tip)
    /\ MinerOf(Tip) = "fees"
    /\ balances["fees"] >= mining_reward

----------------------------------------------------------------------------
(* C4 *)

\* C4: submit_transaction accepts a transaction if and only if it is valid and
\* the sender's recorded balance (0 for an unknown sender) is at least amount +
\* fee; the decision does not depend on the transactions already pending.
C4_AcceptIff ==
    \A tx \in TxUniverse :
        /\ add_transaction(Self, tx).ret
             = (is_valid(tx) /\ BalanceGet(balances, tx.sender) >= tx.amount + tx.fee)
        /\ add_transaction(Self, tx).ret
             = add_transaction([Self EXCEPT !.transaction_pool = <<>>], tx).ret

\* Two transactions of one sender are pending, each affordable alone, not together.
C4_Witness ==
    /\ Accepted
    /\ Len(transaction_pool) = 2
    /\ transaction_pool[1].sender = transaction_pool[2].sender
    /\ \A i \in 1..2 :
          transaction_pool[i].amount + transaction_pool[i].fee
             <= BalanceGet(balances, transaction_pool[i].sender)
    /\ transaction_pool[1].amount + transaction_pool[1].fee
         + transaction_pool[2].amount + transaction_pool[2].fee
         > BalanceGet(balances, transaction_pool[1].sender)

----------------------------------------------------------------------------
(* C5 *)

\* C5: a rejected submit_transaction leaves the mempool, every balance, the
\* chain and the difficulty unchanged.
C5_RejectedFrame ==
    [][Rejected' => UNCHANGED <<transaction_pool, balances, chain, difficulty>>]_vars

\* A submission has just been rejected for its sender's balance, with one pending.
C5_Witness ==
    Rejected /\ last.log = "Insufficient balance" /\ Len(transaction_pool) = 1

----------------------------------------------------------------------------
(* C6 *)

\* C6: an accepted submit_transaction appends the transaction at the end of the
\* mempool and leaves every balance, the chain and the difficulty unchanged;
\* balances change only when a block is committed.
C6_AcceptedFrame ==
    [][/\ Accepted' =>
            /\ \E tx \in TxInputs : transaction_pool' = Append(transaction_pool, tx)
            /\ UNCHANGED <<balances, chain, difficulty>>
       /\ balances' # balances => Len(chain') = Len(chain) + 1]_vars

\* A second transaction has just been accepted behind a different first one.
C6_Witness ==
    /\ Accepted /\ Len(transaction_pool) = 2
    /\ transaction_pool[1] # transaction_pool[2]

----------------------------------------------------------------------------
(* C7 *)

\* C7: mine_pending called while the mempool is empty returns None, reporting
\* the empty pool, and leaves the chain, every balance, the mempool and the
\* difficulty unchanged: no reward is minted.
C7_EmptyMempool ==
    [][(MineCalled' /\ transaction_pool = <<>>) =>
          /\ last'.ret = <<>>
          /\ last'.log = "No transactions to mine"
          /\ UNCHANGED <<chain, balances, transaction_pool, difficulty>>]_vars

\* mine_block has just been called on an empty pool.
C7_Witness ==
    MineFailed /\ last.log = "No transactions to mine" /\ transaction_pool = <<>>

----------------------------------------------------------------------------
(* C8 *)

\* C8: when the nonce search of mine_pending reaches its ceiling, no block is
\* appended, the mempool keeps the same transactions in the same order and no
\* balance changes; a call on a non-empty pool fails in no other way.
C8_ExhaustedFrame ==
    [][(MineCalled' /\ transaction_pool # <<>> /\ last'.ret = <<>>) =>
          /\ last'.log = "Stopping after attempts"
          /\ UNCHANGED <<chain, transaction_pool, balances, difficulty>>]_vars

\* A search has just hit the ceiling with two transactions pending.
C8_Witness ==
    MineFailed /\ last.log = "Stopping after attempts" /\ Len(transaction_pool) = 2

----------------------------------------------------------------------------
(* C9 *)

----------------------------------------------------------------------------
(* C10 *)

\* C10: Block.mine always terminates, for every block and every difficulty,
\* one no hash can satisfy included: it returns its statistics or stops at the
\* attempt ceiling.
C10_Terminates == <>(mining.pc \in {"returned", "stopped"})

\* The search for a difficulty above the digest length has stopped at the ceiling.
C10_Witness ==
    /\ mining.pc = "stopped"
    /\ mining.block.difficulty > HexLen
    /\ mining.stats = <<>>

----------------------------------------------------------------------------
(* C11 *)

\* C11: the transaction list of a block built by mine_pending(miner) is the
\* reward transaction (coinbase -> miner, the mining reward, fee 0), then the
\* fee transaction (fees -> miner, the sum of the pooled fees, fee 0) if and
\* only if that sum is positive, then the pooled transactions in the order of
\* their submission, none left out and none twice.
C11_BlockTransactions ==
    [][MineSucceeded' =>
          \E miner \in Addresses :
             LET reward == [sender |-> "coinbase", receiver |-> miner,
                            amount |-> mining_reward, fee |-> 0, timestamp |-> now]
                 sum == SumFees(transaction_pool)
                 fees == [sender |-> "fees", receiver |-> miner,
                          amount |-> sum, fee |-> 0, timestamp |-> now]
             IN Tip'.transactions =
                   (IF sum > 0 THEN <<reward, fees>> ELSE <<reward>>) \o transaction_pool]_vars

\* A block has just been mined from a pool of two different transactions, one
\* with a fee and one without: it holds the reward, the fee transaction and the two.
C11_Witness ==
    /\ MineSucceeded
    /\ Len(Tip.transactions) = 4
    /\ Tip.transactions[2].sender = "fees"
    /\ Tip.transactions[3] # Tip.transactions[4]
    /\ \E i \in 3..4 : Tip.transactions[i].fee = 0

----------------------------------------------------------------------------
(* C12 *)

\* C12: the block mine_pending assembles has the chain length before the call
\* as its index, the hash of the tip at that moment as its previous hash and
\* the chain's current difficulty as its difficulty, so that a block mined
\* after adjust_difficulty carries the adjusted value; its nonce search starts
\* at 0: the nonce it is appended with is the first from 0 whose hash meets the
\* difficulty.
C12_Assembled ==
    [][MineSucceeded' =>
          /\ Tip'.index = Len(chain)
          /\ Tip'.previous_hash = calculate_hash(chain[Len(chain)])
          /\ Tip'.difficulty = difficulty
          /\ \A n \in 0..(Tip'.nonce - 1) :
                ~StartsWithZeros(calculate_hash([Tip' EXCEPT !.nonce = n]), difficulty)]_vars

\* A block has just been mined at a difficulty adjust_difficulty had changed,
\* at a nonce other than 0.
C12_Witness ==
    /\ MineSucceeded
    /\ Len(chain) > Window
    /\ Tip.difficulty # InitialDifficulty
    /\ Tip.difficulty # chain[Len(chain) - 1].difficulty
    /\ Tip.nonce > 0

----------------------------------------------------------------------------
(* C13 *)

\* The balances after the first k transactions of txs have been applied to bal,
\* as C13 words it: the sender, if it has an entry, pays amount + fee; the
\* receiver, entered at 0 if it has none, gets amount.
RECURSIVE C13_Applied(_, _, _)
C13_Applied(bal, txs, k) ==
    IF k = 0 THEN bal
    ELSE LET before == C13_Applied(bal, txs, k - 1)
             tx == txs[k]
             paid == [a \in DOMAIN before |->
                         IF a = tx.sender THEN before[a] - (tx.amount + tx.fee)
                         ELSE before[a]]
         IN [a \in DOMAIN paid \cup {tx.receiver} |->
                (IF a \in DOMAIN paid THEN paid[a] ELSE 0)
                + (IF a = tx.receiver THEN tx.amount ELSE 0)]

\* C13: a successful mine_pending applies every transaction of the new block
\* exactly once, in list order: each debits its sender by amount + fee only if
\* the sender has a balance entry, and credits its receiver by amount, entered
\* at 0 first.  On a fresh chain where miner1 sends alice 25 with fee 0.001 and
\* miner1 mines, alice ends with 25 and miner1 with 100 - 25.001 + reward + 0.001.
C13_BalancesApplied ==
    [][MineSucceeded' =>
          /\ balances' = C13_Applied(balances, Tip'.transactions, Len(Tip'.transactions))
          /\ ( /\ Len(chain) = 1
               /\ Len(transaction_pool) = 1
               /\ transaction_pool[1].sender = "miner1"
               /\ transaction_pool[1].receiver = "alice"
               /\ transaction_pool[1].amount = 25 * Milli
               /\ transaction_pool[1].fee = DefaultFee
               /\ MinerOf(Tip') = "miner1" )
             => /\ balances'["alice"] = 25 * Milli
                /\ balances'["miner1"]
                     = 100 * Milli - (25 * Milli + DefaultFee) + mining_reward + DefaultFee]_vars

\* The scenario has just run: on a fresh chain miner1 sent alice 25 with fee
\* 0.001 and mined the block itself.
C13_Witness ==
    /\ MineSucceeded
    /\ Len(chain) = 2
    /\ MinerOf(Tip) = "miner1"
    /\ Len(Tip.transactions) = 3
    /\ Tip.transactions[3] = [sender |-> "miner1", receiver |-> "alice",
                              amount |-> 25 * Milli, fee |-> DefaultFee,
                              timestamp |-> Tip.transactions[3].timestamp]
    /\ balances["alice"] = 25 * Milli

----------------------------------------------------------------------------
(* C14 *)

\* C14: after any sequence of submit_transaction and mine_pending calls, every
\* address's balance is non-negative: a sender never has more confirmed out of
\* its account than it held.
C14_NonNegative ==
    \A a \in DOMAIN balances : balances[a] >= 0

----------------------------------------------------------------------------
(* C15 *)

\* C15: immediately after construction the chain has exactly one block, with
\* index 0 and the all-zero 64-character previous hash, the mempool is empty,
\* the balance effects of the genesis transaction are applied (miner1 holds
\* 100), and is_valid() returns true.
C15_AfterConstruction ==
    last.op = "__init__" =>
        /\ Len(chain) = 1
        /\ chain[1].index = 0
        /\ chain[1].previous_hash = ZeroHash
        /\ LeadingZeros(chain[1].previous_hash) = HexLen
        /\ transaction_pool = <<>>
        /\ get_balance(Self, "miner1") = 100 * Milli
        /\ get_balance(Self, "genesis") = GenesisSupply - (100 * Milli + DefaultFee)
        /\ is_chain_valid(Self)

\* The constructor has just returned, its genesis block found at a nonce other than 0.
C15_Witness ==
    /\ last.op = "__init__"
    /\ Len(chain) = 1
    /\ chain[1].nonce > 0
    /\ Len(chain[1].transactions) = 1

----------------------------------------------------------------------------
(* C16 *)

\* C16: is_valid() returns true in every state reachable through the API alone,
\* after any interleaving of submit_transaction, mine_pending (successful or
\* not) and adjust_difficulty calls, chains whose blocks were mined at different
\* difficulties included.
C16_AlwaysValid == is_chain_valid(Self) = TRUE

\* The chain holds a block mined at an adjusted difficulty, and
\* adjust_difficulty has just raised the difficulty above the tip's.
C16_Witness ==
    /\ Len(chain) > Window
    /\ \E i \in 1..Len(chain) : chain[i].difficulty # InitialDifficulty
    /\ difficulty > Tip.difficulty
    /\ last.op = "adjust_difficulty"

----------------------------------------------------------------------------
(* C17 *)

\* C17: is_valid() returns false if and only if there is an index i with
\* 1 <= i <= length - 1 such that the recomputed hash of block[i] does not start
\* with block[i].difficulty zero characters or block[i].previous_hash differs
\* from the recomputed hash of block[i-1]; it returns true for every chain of
\* length 1 and changes no state.  (Sequences count from 1: block[i] is chain[i + 1].)
C17_ValidIff ==
    [][last'.op = "is_chain_valid" =>
          /\ (last'.ret = <<FALSE>>) <=>
                \E i \in 1..(Len(chain) - 1) :
                    \/ LeadingZeros(calculate_hash(chain[i + 1])) < chain[i + 1].difficulty
                    \/ chain[i + 1].previous_hash # calculate_hash(chain[i])
          /\ last'.ret \in {<<FALSE>>, <<TRUE>>}
          /\ Len(chain) = 1 => last'.ret = <<TRUE>>
          /\ UNCHANGED <<chain, difficulty, transaction_pool, balances>>]_vars

\* is_chain_valid has just returned False for a chain of three blocks whose
\* links are whole: the hash of one block falls short of its difficulty.
C17_Witness ==
    /\ last.op = "is_chain_valid"
    /\ last.ret = <<FALSE>>
    /\ Len(chain) = 3
    /\ \A i \in 2..3 : chain[i].previous_hash = calculate_hash(chain[i - 1])

----------------------------------------------------------------------------
(* C18 *)

\* C18: if the stored transaction list of a committed block is changed after
\* the block was appended (a transaction altered, added, removed or reordered,
\* nothing else touched), is_valid() returns false.
C18_TamperDetected ==
    [][(/\ last.op = "corrupt" /\ last.log = "transactions"
        /\ last'.op = "is_chain_valid")
       => last'.ret = <<FALSE>>]_vars

----------------------------------------------------------------------------
(* C19 *)

\* C19: adjust_difficulty leaves the difficulty unchanged when the chain has
\* fewer than 10 blocks; otherwise, with average = (timestamp of the latest
\* block - timestamp of the 10th-most-recent block) / 9, it adds 1 when
\* average < 8, sets the difficulty to max(1, difficulty - 1) when average > 12
\* and leaves it unchanged when 8 <= average <= 12; it never changes the chain,
\* the mempool or any balance.  (average < 8 iff the difference is below 8 * 9.)
C19_Adjusted ==
    [][last'.op = "adjust_difficulty" =>
          /\ Len(chain) < 10 => difficulty' = difficulty
          /\ Len(chain) >= 10 =>
                LET elapsed == chain[Len(chain)].timestamp - chain[Len(chain) - 9].timestamp
                IN /\ elapsed < 8 * 9 => difficulty' = difficulty + 1
                   /\ elapsed > 12 * 9 =>
                         difficulty' = IF difficulty - 1 >= 1 THEN difficulty - 1 ELSE 1
                   /\ (8 * 9 <= elapsed /\ elapsed <= 12 * 9) => difficulty' = difficulty
          /\ UNCHANGED <<chain, transaction_pool, balances>>]_vars

\* adjust_difficulty has just been called on a chain of more than ten blocks
\* whose last ten took 12 units each on average, a pool pending: it changed nothing.
C19_Witness ==
    /\ last.op = "adjust_difficulty"
    /\ last.log = ""
    /\ Len(chain) > 10
    /\ chain[Len(chain)].timestamp - chain[Len(chain) - 9].timestamp = 12 * 9
    /\ transaction_pool # <<>>

----------------------------------------------------------------------------
(* C20 *)

\* C20: the chain's difficulty is an integer >= 1 in every reachable state,
\* whatever number of adjust_difficulty calls is made and whatever the block
\* timestamps are.
C20_DifficultyPositive == difficulty \in Nat /\ difficulty >= 1

\* adjust_difficulty has just answered a slow window with a decrease, on a
\* chain whose tip was already mined at difficulty 1: the difficulty is still 1.
C20_Witness ==
    /\ last.op = "adjust_difficulty"
    /\ last.log = "Difficulty decreased"
    /\ Tip.difficulty = 1
    /\ difficulty = 1

----------------------------------------------------------------------------
(* C21..C24: the methods of Transaction and Block as functions of their object. *)

\* The permutations of the positions 1..n.
Rearrangements(n) ==
    {p \in [1..n -> 1..n] : \A i, j \in 1..n : p[i] = p[j] => i = j}

\* The list with its elements rearranged by p.
Permuted(list, p) == [i \in 1..Len(list) |-> list[p[i]]]

MerkleRootCalled == last.op = "calculate_merkle_root" /\ transaction_pool # <<>>

\* C21 (as amended): for every non-empty transaction list, computing the
\* Merkle root again over the same list gives the same root, a rearrangement
\* that leaves the list as it was gives the same root, and every rearrangement
\* that changes the list gives a different root.
C21_Amended ==
    MerkleRootCalled =>
        /\ calculate_merkle_root(transaction_pool) = last.ret[1]
        /\ \A p \in Rearrangements(Len(transaction_pool)) :
              (Permuted(transaction_pool, p) = transaction_pool)
                  <=> (calculate_merkle_root(Permuted(transaction_pool, p)) = last.ret[1])

\* A root computed over three transactions, two of them different.
C21_Witness ==
    /\ MerkleRootCalled
    /\ Len(transaction_pool) = 3
    /\ transaction_pool[1] # transaction_pool[2]
    /\ transaction_pool[2] # transaction_pool[3]

\* C21 as stated: every permutation of a non-empty list other than the
\* identity gives a different root.
C21_Original ==
    MerkleRootCalled =>
        \A p \in Rearrangements(Len(transaction_pool)) :
            (\E i \in 1..Len(transaction_pool) : p[i] # i)
                => calculate_merkle_root(Permuted(transaction_pool, p)) # last.ret[1]

\* C22: the Merkle root of an empty transaction list is "0" * 64, and a
\* Block constructed with an empty transaction list and no root supplied
\* stores "0" * 64 as its merkle_root.
C22_EmptyRoot ==
    /\ (last.op = "calculate_merkle_root" /\ transaction_pool = <<>>)
          => (last.ret[1] = ZeroHash /\ LeadingZeros(last.ret[1]) = HexLen)
    /\ (last.op = "Block" /\ last.log = "" /\ transaction_pool = <<>>)
          => (chain[1].transactions = <<>> /\ chain[1].merkle_root = ZeroHash)

\* A Block built from an empty list without a root.
C22_Witness ==
    /\ last.op = "Block"
    /\ last.log = ""
    /\ transaction_pool = <<>>
    /\ chain[1].merkle_root = ZeroHash

\* The fields of a Transaction.
TxFields == {"sender", "receiver", "amount", "fee", "timestamp"}

\* C23: Transaction.get_hash is deterministic and field-sensitive: two
\* transactions with the same sender, receiver, amount, fee and timestamp
\* have the same hash, and two transactions that differ in exactly one of
\* these fields have different hashes.
C23_HashOfFields ==
    last.op = "get_hash" =>
        \A i, j \in 1..Len(transaction_pool) :
            LET differing == {f \in TxFields : transaction_pool[i][f] # transaction_pool[j][f]}
            IN /\ differing = {} => last.ret[i] = last.ret[j]
               /\ Cardinality(differing) = 1 => last.ret[i] # last.ret[j]

\* The hashes of two transactions that differ in their timestamp only.
C23_Witness ==
    /\ last.op = "get_hash"
    /\ Len(transaction_pool) = 2
    /\ {f \in TxFields : transaction_pool[1][f] # transaction_pool[2][f]} = {"timestamp"}
    /\ last.ret[1] # last.ret[2]

\* C24: Transaction.is_valid returns true if and only if sender != receiver,
\* amount > 0, fee >= 0 and neither sender nor receiver is empty, whatever the
\* balances and the chain are.
C24_ValidIff ==
    last.op = "is_valid" =>
        \A i \in 1..Len(transaction_pool) :
            LET tx == transaction_pool[i]
            IN last.ret[i] = TRUE
                 <=> (/\ tx.sender # tx.receiver
                      /\ tx.amount > 0
                      /\ tx.fee >= 0
                      /\ Len(tx.sender) > 0
                      /\ Len(tx.receiver) > 0)

\* A transaction of a sender without any balance found valid, next to one
\* found invalid for its empty receiver alone.
C24_Witness ==
    /\ last.op = "is_valid"
    /\ Len(transaction_pool) = 2
    /\ balances = <<>>
    /\ last.ret[1] = TRUE
    /\ last.ret[2] = FALSE
    /\ transaction_pool[2] = [transaction_pool[1] EXCEPT !.receiver = ""]

----------------------------------------------------------------------------
(* C25..C30: the chain under every call of the API. *)

\* C25: the chain is append-only under the API: no add_transaction,
\* mine_block, adjust_difficulty, is_chain_valid or get_balance call removes,
\* reorders or modifies a block already in the chain; the chain never gets
\* shorter, it grows by at most one block in a step and only in a mine_block
\* call, and the block at position i (counted from 0) has index i.
C25_AppendOnly ==
    /\ \A i \in 1..Len(chain) : chain[i].index = i - 1
    /\ [][/\ Len(chain') >= Len(chain)
          /\ SubSeq(chain', 1, Len(chain)) = chain
          /\ Len(chain') <= Len(chain) + 1
          /\ Len(chain') > Len(chain) => MineCalled'
          /\ \A i \in 1..Len(chain') : chain'[i].index = i - 1]_vars

\* A third block has just been appended.
C25_Witness ==
    /\ MineSucceeded
    /\ Len(chain) = 3
    /\ chain[3].index = 2

\* The transactions of the pool and of every block of the chain.
HeldTransactions ==
    {transaction_pool[i] : i \in 1..Len(transaction_pool)}
        \cup UNION {{chain[k].transactions[i] : i \in 1..Len(chain[k].transactions)} :
                       k \in 1..Len(chain)}

\* C26: every transaction in the pool or in a block of the chain, the reward
\* and fee transactions of mine_block included, has sender != receiver,
\* amount > 0, fee >= 0 and a non-empty sender and receiver, whatever miner
\* address mine_block was called with.
C26_AllValid ==
    \A tx \in HeldTransactions :
        /\ tx.sender # tx.receiver
        /\ tx.amount > 0
        /\ tx.fee >= 0
        /\ tx.sender # ""
        /\ tx.receiver # ""

\* C27: when Block.mine_block succeeds, the block's nonce is the smallest
\* nonce at or above its starting value whose hash meets the target, the
\* returned hash is the block's calculate_hash() after mining, the returned
\* nonce is the block's nonce, and attempts = final nonce - starting nonce + 1,
\* which is at least 1.
C27_LeastNonce ==
    mining.pc = "returned" =>
        LET start == last.ret[1].nonce
            b == mining.block
            stats == mining.stats[1]
        IN /\ b.nonce >= start
           /\ StartsWithZeros(calculate_hash(b), b.difficulty)
           /\ \A n \in start..(b.nonce - 1) :
                 ~StartsWithZeros(calculate_hash([b EXCEPT !.nonce = n]), b.difficulty)
           /\ stats.hash = calculate_hash(b)
           /\ stats.nonce = b.nonce
           /\ stats.attempts = b.nonce - start + 1
           /\ stats.attempts >= 1

\* A search that started at nonce 1 and succeeded at its third attempt.
C27_Witness ==
    /\ mining.pc = "returned"
    /\ last.ret[1].nonce = 1
    /\ mining.block.nonce = 3
    /\ mining.stats[1].attempts = 3

\* C28: one call of Block.mine_block evaluates at most MaxAttempts candidate
\* hashes (the attempt ceiling): no success is reported with an attempt count
\* above the ceiling, and a search that failed has tried exactly the ceiling
\* number of nonces.
C28_Ceiling ==
    /\ mining.attempts <= MaxAttempts
    /\ mining.pc = "returned" => mining.stats[1].attempts <= MaxAttempts
    /\ mining.pc = "stopped" =>
          /\ mining.attempts = MaxAttempts
          /\ mining.block.nonce = last.ret[1].nonce + MaxAttempts

\* A success reported above the ceiling (a case of what C28 excludes).
C28_SuccessAbove ==
    mining.pc = "returned" /\ mining.stats[1].attempts = MaxAttempts + 1

RECURSIVE PooledIn(_)
\* The pooled transactions of the blocks after the genesis block, in chain order.
PooledIn(blocks) ==
    IF Len(blocks) <= 1 THEN <<>>
    ELSE PooledIn(SubSeq(blocks, 1, Len(blocks) - 1)) \o PooledOf(blocks[Len(blocks)])

\* The pooled transactions of the chain followed by the pool.
Ledger == PooledIn(chain) \o transaction_pool

\* C29: no accepted transaction is lost, duplicated or reordered.  The pooled
\* transactions of blocks 1..n in chain order followed by the pool are the
\* accepted submissions in the order of their acceptance: the sequence is empty
\* after construction, an accepted add_transaction appends its transaction to
\* it (at the end of the pool) and no other step changes it; a successful
\* mine_block moves the whole pool, in order, into the new block, so each
\* accepted transaction is confirmed once, by the first mine_block that
\* succeeds after it.
C29_LedgerKept ==
    /\ Ledger = <<>>
    /\ [][/\ IF Accepted' /\ transaction_pool' # transaction_pool
             THEN /\ Len(transaction_pool') = Len(transaction_pool) + 1
                  /\ Ledger' = Append(Ledger, transaction_pool'[Len(transaction_pool')])
                  /\ chain' = chain
             ELSE Ledger' = Ledger
          /\ MineSucceeded' /\ chain' # chain =>
                /\ chain' = Append(chain, Tip')
                /\ PooledOf(Tip') = transaction_pool
                /\ transaction_pool' = <<>>
          /\ chain' # chain => MineSucceeded']_vars

\* Three accepted transfers, the first confirmed by one block and the other
\* two, which differ, by the next.
C29_Witness ==
    /\ MineSucceeded
    /\ Len(chain) = 3
    /\ Len(PooledOf(chain[2])) = 1
    /\ Len(PooledOf(chain[3])) = 2
    /\ PooledOf(chain[3])[1] # PooledOf(chain[3])[2]
    /\ transaction_pool = <<>>

RECURSIVE SumOver(_, _)
\* The sum of the balances of the addresses in S.
SumOver(bal, S) ==
    IF S = {} THEN 0
    ELSE LET a == CHOOSE x \in S : TRUE
         IN bal[a] + SumOver(bal, S \ {a})

\* The sum of all balances.
BalanceSum == SumOver(balances, DOMAIN balances)
BalanceSumNext == SumOver(balances', DOMAIN balances')

\* Neither reserved address has a balance entry.
NoReservedEntry == "coinbase" \notin DOMAIN balances /\ "fees" \notin DOMAIN balances

----------------------------------------------------------------------------
(* C31 *)

\* C31: the Merkle root of a list of odd length n >= 3 is the Merkle root of
\* the same list with its last transaction appended once more, a different
\* list: an odd level duplicates its last hash before pairing.
C31_OddDuplicate ==
    (MerkleRootCalled /\ Len(transaction_pool) >= 3 /\ Len(transaction_pool) % 2 = 1) =>
        LET longer == Append(transaction_pool, transaction_pool[Len(transaction_pool)])
        IN /\ longer # transaction_pool
           /\ calculate_merkle_root(longer) = last.ret[1]

\* The root of three different transactions.
C31_Witness ==
    /\ MerkleRootCalled
    /\ Len(transaction_pool) = 3
    /\ transaction_pool[1] # transaction_pool[2]
    /\ transaction_pool[1] # transaction_pool[3]
    /\ transaction_pool[2] # transaction_pool[3]

----------------------------------------------------------------------------
(* C32..C34: the counter application. *)

\* The integer stored under a global key.
Global(a, key) == globalGet(a.global_state, key).uint

\* Transaction t calls the existing application with the method name first
\* among its arguments.
CallsMethod(t, method) ==
    /\ t.application_id # 0
    /\ Len(t.application_args) > 0
    /\ t.application_args[1] = method

\* The last transaction was approved and took effect.
TxnApproved == last.ret = <<TRUE>>

\* C32: the global counter stays within 0..CounterLimit (1,000,000 in the
\* source) after any sequence of approved and rejected calls: an increment at
\* the limit and a decrement at 0 are rejected and leave counter,
\* total_increments and total_decrements unchanged; an approved increment or
\* decrement changes counter by exactly 1 and its own statistic by exactly 1.
C32_CounterInRange ==
    /\ [](app.id # 0 =>
            /\ globalGet(app.global_state, "counter").type = 2
            /\ Global(app, "counter") \in 0..CounterLimit)
    /\ [][app.id # 0 =>
            /\ ((CallsMethod(txn', "increment") /\ Global(app, "counter") = CounterLimit)
                 \/ (CallsMethod(txn', "decrement") /\ Global(app, "counter") = 0))
                  => /\ ~TxnApproved'
                     /\ Global(app', "counter") = Global(app, "counter")
                     /\ Global(app', "total_increments") = Global(app, "total_increments")
                     /\ Global(app', "total_decrements") = Global(app, "total_decrements")
            /\ (CallsMethod(txn', "increment") /\ TxnApproved')
                  => /\ Global(app', "counter") = Global(app, "counter") + 1
                     /\ Global(app', "total_increments") = Global(app, "total_increments") + 1
            /\ (CallsMethod(txn', "decrement") /\ TxnApproved')
                  => /\ Global(app', "counter") = Global(app, "counter") - 1
                     /\ Global(app', "total_decrements") = Global(app, "total_decrements") + 1]_vars

\* An increment has just been rejected at the limit, after a decrement had
\* been approved.
C32_Witness ==
    /\ app.id # 0
    /\ CallsMethod(txn, "increment")
    /\ txn.on_completion = "NoOp"
    /\ ~TxnApproved
    /\ Global(app, "counter") = CounterLimit
    /\ Global(app, "total_decrements") = 1
    /\ Global(app, "total_increments") = CounterLimit + 1

\* C33: only the creator can reset.  A reset call whose sender is not the
\* stored creator is rejected with all global state unchanged; a reset by the
\* creator is approved and sets counter to 0 while leaving total_increments,
\* total_decrements and creator unchanged; the stored creator never changes
\* after creation.
C33_CreatorResets ==
    [][app.id # 0 =>
         LET creator == globalGet(app.global_state, "creator")
         IN /\ (CallsMethod(txn', "reset") /\ txn'.sender # creator.bytes)
                  => (~TxnApproved' /\ app' = app)
            /\ (CallsMethod(txn', "reset") /\ txn'.on_completion = "NoOp"
                   /\ txn'.sender = creator.bytes)
                  => TxnApproved'
            /\ (CallsMethod(txn', "reset") /\ TxnApproved')
                  => /\ txn'.sender = creator.bytes
                     /\ app'.global_state = [app.global_state EXCEPT !["counter"] = Uint(0)]
            /\ app'.id # 0
            /\ creator.type = 1
            /\ globalGet(app'.global_state, "creator") = creator]_vars

\* A reset by an account that is not the creator has just been rejected while
\* the counter was above 0.
C33_Witness ==
    /\ app.id # 0
    /\ CallsMethod(txn, "reset")
    /\ txn.on_completion = "NoOp"
    /\ txn.sender # globalGet(app.global_state, "creator").bytes
    /\ ~TxnApproved
    /\ Global(app, "counter") > 0

\* C34: the declared global schema (4 integers, 0 byte slices) is sufficient
\* for every global key the approval program writes: a creation that declares
\* it takes effect, and at creation and after every call the integer-valued
\* global keys are at most 4 and the byte-slice-valued ones at most 0.
C34_SchemaSufficient ==
    /\ (last.op = "ApplicationCreateTxn" /\ txn.global_schema = get_global_schema)
          => TxnApproved
    /\ app.id # 0 => FitsSchema(app.global_state, get_global_schema)


====
